---- MODULE Spec2Model ----
(***************************************************************************)
(* PIO website checker: the snapshot / diff / notify pipeline of           *)
(* src/src/pio-checker.ts (PIOChecker, MultiAccountChecker), the two-run   *)
(* test of src/test.js, and runCheck of the Electron main process          *)
(* (src/unnamed/part_002).                                                 *)
(*                                                                         *)
(* Strings whose characters matter (table cells, numbers, serialized       *)
(* JSON) are sequences of one-character strings; strings that are only     *)
(* compared (mainText, url, elementText, logins, titles) are TLA+ strings. *)
(* An optional value (undefined / null in the source) is <<>> when absent  *)
(* and <<v>> when present.                                                 *)
(***************************************************************************)
EXTENDS Naturals, Sequences, FiniteSets, TLC

VARIABLES
    oldData,      \* compareData: first argument
    newData,      \* compareData: second argument
    diffOut,      \* compareData: what the call produced (<<>> before the call)
    reportChanges, \* createDetailedEmailContent: first argument
    emailContent, \* createDetailedEmailContent: what the call produced (optional)
    now,          \* the time (UTC), in seconds
    utcOffset,    \* local time minus UTC, in seconds
    files,        \* data/<accountId>/ : the set of files of each directory
    accounts,     \* MultiAccountChecker.accounts
    mailTransporter, \* PIOChecker.mailTransporter is set (Gmail credentials present)
    allPc,        \* position of the driver
    idx,          \* runAll: index of the account of the current loop iteration
    results,      \* runAll: results
    checker,      \* the PIOChecker whose run() is in flight: <<>> or <<config>>
    pc,           \* position of PIOChecker.run
    previousData, \* run: previousData (optional)
    currentData,  \* run: currentData (optional)
    attempt,      \* scrapeData: attempt
    pending,      \* scrapeData: how the attempt leaves its try block
    browser,      \* scrapeData: the session `browser` refers to ("null", "open",
                  \* "closed", or "leaked": open after a close() that threw)
    openSessions, \* the sessions the scrapeData call in flight launched and has not closed
    lastError,    \* message of the error being handled
    log,          \* calls made by the run in flight, in order
    fetched,      \* per finished loop iteration: what scrapeData did in it
    written,      \* per directory: the files written to it so far, in order
    mail,         \* arguments of the sendEmail call of the run in flight (optional)
    isChecking,   \* main process: isChecking
    mainPc,       \* main process: position of each invocation of runCheck
    accountsFile, \* main process: what reading accounts.json gives
    lastCheck,    \* main process: settings.lastCheck (optional)
    statusEvents, \* main process: the 'check-status' events sent to the renderer
    checkCalls,   \* main process: the calls of runCheck so far and how each began
    cronJob,      \* main process: cronJob (optional)
    jobs,         \* main process: the cron jobs started and not stopped
    setups        \* main process: the calls of setupScheduler so far

diffVars == <<oldData, newData, diffOut, reportChanges, emailContent>>
runVars == <<now, utcOffset, files, accounts, mailTransporter, allPc, idx, results,
             checker, pc, previousData, currentData, attempt, pending, browser, openSessions,
             lastError, log, fetched, written, mail>>
schedVars == <<cronJob, jobs, setups>>
mainVars == <<isChecking, mainPc, accountsFile, lastCheck, statusEvents, checkCalls, schedVars>>
vars == <<diffVars, runVars, mainVars>>

(***************************************************************************)
(* Optional values                                                         *)
(***************************************************************************)
None == <<>>
Some(v) == <<v>>
IsSome(o) == Len(o) = 1
\* `x || []` of compareData: an absent array reads as the empty array.
OrEmpty(o) == IF IsSome(o) THEN o[1] ELSE <<>>

\* The concatenation of a sequence of sequences.
RECURSIVE Flatten(_)
Flatten(seqs) ==
    IF seqs = <<>> THEN <<>> ELSE Head(seqs) \o Flatten(Tail(seqs))

(***************************************************************************)
(* JSON.stringify on the values compareData hands it: arrays of arrays of  *)
(* strings. The output is the character sequence JSON.stringify produces.  *)
(***************************************************************************)
RECURSIVE EscapeChars(_)
EscapeChars(s) ==
    IF s = <<>> THEN <<>>
    ELSE (IF Head(s) \in {"\"", "\\"} THEN <<"\\", Head(s)>> ELSE <<Head(s)>>)
         \o EscapeChars(Tail(s))

StringifyString(s) == <<"\"">> \o EscapeChars(s) \o <<"\"">>

RECURSIVE JoinComma(_)
JoinComma(parts) ==
    IF parts = <<>> THEN <<>>
    ELSE IF Len(parts) = 1 THEN parts[1]
    ELSE parts[1] \o <<",">> \o JoinComma(Tail(parts))

StringifyArray(parts) == <<"[">> \o JoinComma(parts) \o <<"]">>

StringifyStrings(row) ==
    StringifyArray([i \in DOMAIN row |-> StringifyString(row[i])])

\* JSON null in the place of a row of a table: a stored file holds whatever
\* JSON.parse returns. A cell holds characters; the one cell of this row holds
\* none, so that no row of a page equals it.
NullRow == << <<"null">> >>

StringifyRow(row) ==
    IF row = NullRow THEN <<"n", "u", "l", "l">> ELSE StringifyStrings(row)

StringifyTable(table) ==
    StringifyArray([i \in DOMAIN table |-> StringifyRow(table[i])])

\* A serialization that keeps the number of tables and nothing else.
StringifyTablesLength(tables) == <<"[", Len(tables), "]">>

StringifyTables(tables) ==
    StringifyArray([i \in DOMAIN tables |-> StringifyTable(tables[i])])

(***************************************************************************)
(* compareData                                                             *)
(***************************************************************************)
MainContentChanged == "Main content has changed"
TableDataChanged == "Table data has changed"
NumbersChanged == "Numbers/dates have changed"
\* The categories in the order compareData tests them.
CategoryList == <<MainContentChanged, TableDataChanged, NumbersChanged>>

Returned(v) == [threw |-> FALSE, value |-> v, error |-> "none"]
Threw(e) == [threw |-> TRUE, value |-> <<>>, error |-> e]

\* compareData with the tables compared as objects: a parsed array and a
\* scraped one are never the same object.
compareDataByReference(old, new) ==
    IF ~IsSome(old.fields) \/ ~IsSome(new.fields)
    THEN Threw("TypeError")
    ELSE
        LET oldNumbers == StringifyStrings(OrEmpty(old.fields[1].numbers))
            newNumbers == StringifyStrings(OrEmpty(new.fields[1].numbers))
        IN Returned(
              (IF old.mainText # new.mainText THEN <<MainContentChanged>> ELSE <<>>)
           \o <<TableDataChanged>>
           \o (IF oldNumbers # newNumbers THEN <<NumbersChanged>> ELSE <<>>))

\* compareData with the main content check made on the whole snapshot.
compareDataWhole(old, new) ==
    IF ~IsSome(old.fields) \/ ~IsSome(new.fields)
    THEN Threw("TypeError")
    ELSE
        LET oldTables == StringifyTables(OrEmpty(old.fields[1].tables))
            newTables == StringifyTables(OrEmpty(new.fields[1].tables))
            oldNumbers == StringifyStrings(OrEmpty(old.fields[1].numbers))
            newNumbers == StringifyStrings(OrEmpty(new.fields[1].numbers))
        IN Returned(
              (IF old.mainText # new.mainText \/ oldTables # newTables
                  \/ oldNumbers # newNumbers
               THEN <<MainContentChanged>> ELSE <<>>)
           \o (IF oldTables # newTables THEN <<TableDataChanged>> ELSE <<>>)
           \o (IF oldNumbers # newNumbers THEN <<NumbersChanged>> ELSE <<>>))

\* compareData returning as soon as it has found the main content changed.
compareDataShortCircuit(old, new) ==
    IF ~IsSome(old.fields) \/ ~IsSome(new.fields)
    THEN Threw("TypeError")
    ELSE
        LET oldTables == StringifyTables(OrEmpty(old.fields[1].tables))
            newTables == StringifyTables(OrEmpty(new.fields[1].tables))
            oldNumbers == StringifyStrings(OrEmpty(old.fields[1].numbers))
            newNumbers == StringifyStrings(OrEmpty(new.fields[1].numbers))
        IN IF old.mainText # new.mainText
           THEN Returned(<<MainContentChanged>>)
           ELSE Returned(
                  (IF oldTables # newTables THEN <<TableDataChanged>> ELSE <<>>)
               \o (IF oldNumbers # newNumbers THEN <<NumbersChanged>> ELSE <<>>))

\* compareData with the capture time counted as main content.
compareDataWithTimestamp(old, new) ==
    IF ~IsSome(old.fields) \/ ~IsSome(new.fields)
    THEN Threw("TypeError")
    ELSE
        LET oldTables == StringifyTables(OrEmpty(old.fields[1].tables))
            newTables == StringifyTables(OrEmpty(new.fields[1].tables))
            oldNumbers == StringifyStrings(OrEmpty(old.fields[1].numbers))
            newNumbers == StringifyStrings(OrEmpty(new.fields[1].numbers))
        IN Returned(
              (IF old.mainText # new.mainText \/ old.timestamp # new.timestamp
               THEN <<MainContentChanged>> ELSE <<>>)
           \o (IF oldTables # newTables THEN <<TableDataChanged>> ELSE <<>>)
           \o (IF oldNumbers # newNumbers THEN <<NumbersChanged>> ELSE <<>>))

compareData(old, new) ==
    IF ~IsSome(old.fields) \/ ~IsSome(new.fields)
    THEN Threw("TypeError")   \* oldData.fields.tables with fields undefined
    ELSE
        LET oldTables == StringifyTables(OrEmpty(old.fields[1].tables))
            newTables == StringifyTables(OrEmpty(new.fields[1].tables))
            oldNumbers == StringifyStrings(OrEmpty(old.fields[1].numbers))
            newNumbers == StringifyStrings(OrEmpty(new.fields[1].numbers))
        IN Returned(
              (IF old.mainText # new.mainText THEN <<MainContentChanged>> ELSE <<>>)
           \o (IF oldTables # newTables THEN <<TableDataChanged>> ELSE <<>>)
           \o (IF oldNumbers # newNumbers THEN <<NumbersChanged>> ELSE <<>>))

(***************************************************************************)
(* Bounded input sets for compareData                                      *)
(***************************************************************************)
\* The cells of all tables of one snapshot together.
MaxCells == 2

\* Cell texts; the second one is the text  1","1  (quotes and a comma inside).
CellTexts == { <<"1">>, <<"1", "\"", ",", "\"", "1">> }
N10 == <<"1", "0">>
N11 == <<"1", "1">>
MainTexts == { "status A", "status B" }
ElementTexts == { "e1", "e2" }

\* Rows of exactly k cells.
RowsOf(k) == [1..k -> CellTexts]

\* Sequences of non-empty rows holding exactly k cells.
RECURSIVE RowSeqsOf(_)
RowSeqsOf(k) ==
    IF k = 0 THEN { <<>> }
    ELSE UNION { { <<r>> \o rest : r \in RowsOf(j), rest \in RowSeqsOf(k - j) }
                 : j \in 1..k }

\* Sequences of non-empty tables holding exactly k cells.
RECURSIVE TableSeqsOf(_)
TableSeqsOf(k) ==
    IF k = 0 THEN { <<>> }
    ELSE UNION { { <<t>> \o rest : t \in RowSeqsOf(j), rest \in TableSeqsOf(k - j) }
                 : j \in 1..k }

TablesValues == UNION { TableSeqsOf(k) : k \in 0..MaxCells }
NumbersValues == { <<>>, <<N10>>, <<N11>> }

Opt(S) == { None } \cup { Some(v) : v \in S }

FieldsValues == [tables : Opt(TablesValues), numbers : Opt(NumbersValues)]

DiffInputs ==
    [mainText : MainTexts, fields : { Some(f) : f \in FieldsValues },
     url : { "url" }, timestamp : { 0 }, elementText : ElementTexts]

InitDiff ==
    /\ oldData \in { d \in DiffInputs : d.mainText = "status A" /\ d.elementText = "e1" }
    /\ newData \in DiffInputs
    /\ diffOut = None
    /\ reportChanges = <<>>
    /\ emailContent = None

\* One call compareData(oldData, newData).
Compare ==
    /\ diffOut = None
    /\ diffOut' = Some(compareData(oldData, newData))
    /\ UNCHANGED <<oldData, newData, reportChanges, emailContent, runVars, mainVars>>

(***************************************************************************)
(* The snapshot store: data/<accountId>/szczegoly-wniosku_<stamp>.json     *)
(***************************************************************************)
\* The first second of the modelled window, and the seconds it spans.
FirstSecond == 8
MaxSeconds == 7
\* Daylight saving time ends: local time is set back by this many seconds.
DstShift == 3

DigitChars == <<"0", "1", "2", "3", "4", "5", "6", "7", "8", "9">>

\* String(n) for a natural number n.
RECURSIVE NumberToString(_)
NumberToString(n) ==
    IF n < 10 THEN <<DigitChars[n + 1]>>
    ELSE NumberToString(n \div 10) \o <<DigitChars[(n % 10) + 1]>>

\* s.padStart(2, '0')
padStart2(s) == IF Len(s) < 2 THEN <<"0">> \o s ELSE s

\* saveData's timestamp: the fields of the local time, each padded to two
\* digits. The window lies within one minute, so the seconds field is the
\* one that varies; the fields before it are the same for every file.
LocalSeconds == now + utcOffset
FormatTimestamp(localSeconds) == padStart2(NumberToString(localSeconds))

Prefix == "szczegoly-wniosku_"
Suffix == ".json"
FileName(stamp) == [prefix |-> Prefix, stamp |-> stamp, suffix |-> Suffix]

\* Code unit order of the characters of a file name after the prefix.
CharCode(c) ==
    IF c = "." THEN 0 ELSE CHOOSE i \in 1..10 : DigitChars[i] = c

\* a < b as JavaScript compares strings (Array.prototype.sort's default).
RECURSIVE StringLess(_, _)
StringLess(a, b) ==
    IF b = <<>> THEN FALSE
    ELSE IF a = <<>> THEN TRUE
    ELSE IF CharCode(Head(a)) # CharCode(Head(b))
         THEN CharCode(Head(a)) < CharCode(Head(b))
    ELSE StringLess(Tail(a), Tail(b))

NameLess(m, n) == StringLess(m.stamp \o <<".">>, n.stamp \o <<".">>)

\* getLatestDataFile: filter, sort, reverse, take the first.
getLatestDataFile(dir) ==
    LET names == { f.name : f \in { g \in dir : g.name.prefix = Prefix
                                               /\ g.name.suffix = Suffix } }
    IN IF names = {} THEN None
       ELSE Some(CHOOSE n \in names : \A m \in names : ~NameLess(n, m))

ReadFile(dir, name) == (CHOOSE f \in dir : f.name = name).content

\* fs.writeFileSync(filepath, content): creates the file or replaces its content.
writeFileSync(dir, name, content) ==
    { f \in dir : f.name # name } \cup { [name |-> name, content |-> content] }

(***************************************************************************)
(* Configuration, page contents                                            *)
(***************************************************************************)
MaxAccounts == 3
Retries == 3

AccountConfig(l, p, e) == [login |-> l, password |-> p, elementText |-> e]
\* A complete entry, and an entry without a password.
AccountConfigs ==
    { AccountConfig("u1", "pw", "e1"), AccountConfig("u2", "", "e2") }
AccountLists == UNION { [1..n -> AccountConfigs] : n \in 1..MaxAccounts }
DirNames == { c.login : c \in AccountConfigs }

Cell1 == <<"1">>
PageA == [mainText |-> "status A", tables |-> << << <<Cell1, Cell1>> >> >>,
          numbers |-> <<N10>>]
PageB == [mainText |-> "status B", tables |-> << << <<Cell1, Cell1>> >> >>,
          numbers |-> <<N11>>]
Pages == { PageA, PageB }

\* The ScrapedData object scrapeData builds.
ScrapedData(page, time, elementText) ==
    [mainText |-> page.mainText,
     fields |-> Some([tables |-> Some(page.tables), numbers |-> Some(page.numbers)]),
     url |-> "url", timestamp |-> time, elementText |-> elementText]

\* A JSON file in the data directory that has no "fields" member.
ForeignData ==
    [mainText |-> "status A", fields |-> None, url |-> "url",
     timestamp |-> FirstSecond - 1, elementText |-> "e1"]
ForeignFile ==
    [name |-> FileName(FormatTimestamp(FirstSecond - 1)), content |-> ForeignData]
\* A snapshot of the application e2, saved while the entry of u1 named it.
OtherRecordFile ==
    [name |-> FileName(FormatTimestamp(FirstSecond - 1)),
     content |-> ScrapedData(PageA, FirstSecond - 1, "e2")]
PriorFiles == { ForeignFile, OtherRecordFile }
\* A JSON file whose one table holds null where a row is expected.
MalformedData ==
    [mainText |-> "status A",
     fields |-> Some([tables |-> Some(<< <<NullRow>> >>), numbers |-> Some(<<N10>>)]),
     url |-> "url", timestamp |-> FirstSecond - 1, elementText |-> "e1"]
MalformedFile ==
    [name |-> FileName(FormatTimestamp(FirstSecond - 1)), content |-> MalformedData]

(***************************************************************************)
(* Calls a run makes, in order                                             *)
(***************************************************************************)
Ev(op, arg, msg) == [op |-> op, arg |-> arg, msg |-> msg]

FirstRunTitle == "PIO Checker - First Run"
NoChangesTitle == "PIO Checker - No Changes"
ChangesTitle == "PIO Checker - Changes Detected!"
ErrorTitle == "PIO Checker - Error"
ErrorSubject == "PIO Checker - Error Occurred"

\* changes.join(', ')
RECURSIVE JoinStrings(_)
JoinStrings(ss) ==
    IF ss = <<>> THEN ""
    ELSE IF Len(ss) = 1 THEN ss[1]
    ELSE ss[1] \o ", " \o JoinStrings(Tail(ss))

sendNotification(title, message) == Ev("sendNotification", title, message)

MissingConfigMessage == "Missing required configuration"
ReadErrorMessage == "read error"
WriteErrorMessage == "write error"
TypeErrorMessage == "Cannot read properties of undefined"
ScrapeErrorMessage(m) == "Failed to scrape data after 3 attempts: " \o m

\* What the run in flight has called so far.
Called(op) == \E i \in DOMAIN log : log[i].op = op
LogHas(e) == \E i \in DOMAIN log : log[i] = e
Notified(title) ==
    { i \in DOMAIN log : log[i].op = "sendNotification" /\ log[i].arg = title }

(***************************************************************************)
(* The detailed report: createDetailedEmailContent, formatTablesForEmail.  *)
(* The HTML is the sequence of its elements; an element has a tag, its     *)
(* fixed text, the characters computed into it and, for a table, its rows. *)
(* The values of the account, time and application number paragraphs are   *)
(* not followed.                                                           *)
(***************************************************************************)
NoTableData == "No table data available"
NullErrorMessage == "Cannot read properties of null (reading 'forEach')"

Element(tag, text, chars) == [tag |-> tag, text |-> text, chars |-> chars, rows |-> <<>>]

\* One <table>: the cells of its first row are th, those of the others td.
TableElement(table) ==
    [tag |-> "table", text |-> "", chars |-> <<>>,
     rows |-> [i \in DOMAIN table |->
                  [tag |-> IF i = 1 THEN "th" ELSE "td", cells |-> table[i]]]]

\* parts.join(sep)
RECURSIVE JoinWith(_, _)
JoinWith(parts, sep) ==
    IF parts = <<>> THEN <<>>
    ELSE IF Len(parts) = 1 THEN parts[1]
    ELSE parts[1] \o sep \o JoinWith(Tail(parts), sep)

formatTablesForEmail(tables) ==
    IF tables = <<>>
    THEN Returned(<<Element("p", NoTableData, <<>>)>>)
    ELSE IF \E i \in DOMAIN tables : \E j \in DOMAIN tables[i] : tables[i][j] = NullRow
    THEN Threw(NullErrorMessage)   \* row.forEach with row null
    ELSE Returned(Flatten([i \in DOMAIN tables |->
             <<Element("h5", "Table", NumberToString(i) \o <<":">>),
               TableElement(tables[i])>>]))

\* changes.includes(category)
Includes(list, x) == \E i \in DOMAIN list : list[i] = x

ReportHead ==
    <<Element("h2", "PIO Application Status Update", <<>>),
      Element("p", "Account:", <<>>),
      Element("p", "Time:", <<>>),
      Element("p", "Application Number:", <<>>),
      Element("p", "Changes Detected:", <<>>)>>

ReportFoot(url) ==
    <<Element("a", url, <<>>),
      Element("em", "This is an automated notification from PIO Checker", <<>>)>>

\* createDetailedEmailContent showing the current tables on both sides.
createDetailedEmailContentCurrentOnly(changes, previous, current) ==
    LET tablesChanged == Includes(changes, TableDataChanged)
        numbersChanged == Includes(changes, NumbersChanged)
        items == [i \in DOMAIN changes |-> Element("li", changes[i], <<>>)]
    IN IF (tablesChanged \/ numbersChanged)
          /\ (~IsSome(previous.fields) \/ ~IsSome(current.fields))
       THEN Threw(TypeErrorMessage)
       ELSE
         LET currTables == IF tablesChanged
                           THEN formatTablesForEmail(OrEmpty(current.fields[1].tables))
                           ELSE Returned(<<>>)
             tablesPart == IF tablesChanged
                           THEN <<Element("h3", "Table Changes:", <<>>),
                                  Element("h4", "Previous Data:", <<>>)>>
                                \o currTables.value
                                \o <<Element("h4", "Current Data:", <<>>)>>
                                \o currTables.value
                           ELSE <<>>
             numbersPart == IF numbersChanged
                            THEN <<Element("h3", "Number/Date Changes:", <<>>),
                                   Element("p", "Previous:",
                                           JoinWith(OrEmpty(previous.fields[1].numbers),
                                                    <<",", " ">>)),
                                   Element("p", "Current:",
                                           JoinWith(OrEmpty(current.fields[1].numbers),
                                                    <<",", " ">>))>>
                            ELSE <<>>
         IN IF currTables.threw THEN currTables
            ELSE Returned(ReportHead \o items \o tablesPart \o numbersPart
                          \o ReportFoot(current.url))

createDetailedEmailContent(changes, previous, current) ==
    LET tablesChanged == Includes(changes, TableDataChanged)
        numbersChanged == Includes(changes, NumbersChanged)
        items == [i \in DOMAIN changes |-> Element("li", changes[i], <<>>)]
    IN IF (tablesChanged \/ numbersChanged)
          /\ (~IsSome(previous.fields) \/ ~IsSome(current.fields))
       THEN Threw(TypeErrorMessage)   \* previousData.fields.tables with fields undefined
       ELSE
         LET prevTables == IF tablesChanged
                           THEN formatTablesForEmail(OrEmpty(previous.fields[1].tables))
                           ELSE Returned(<<>>)
             currTables == IF tablesChanged
                           THEN formatTablesForEmail(OrEmpty(current.fields[1].tables))
                           ELSE Returned(<<>>)
             tablesPart == IF tablesChanged
                           THEN <<Element("h3", "Table Changes:", <<>>),
                                  Element("h4", "Previous Data:", <<>>)>>
                                \o prevTables.value
                                \o <<Element("h4", "Current Data:", <<>>)>>
                                \o currTables.value
                           ELSE <<>>
             numbersPart == IF numbersChanged
                            THEN <<Element("h3", "Number/Date Changes:", <<>>),
                                   Element("p", "Previous:",
                                           JoinWith(OrEmpty(previous.fields[1].numbers),
                                                    <<",", " ">>)),
                                   Element("p", "Current:",
                                           JoinWith(OrEmpty(current.fields[1].numbers),
                                                    <<",", " ">>))>>
                            ELSE <<>>
         IN IF prevTables.threw THEN prevTables
            ELSE IF currTables.threw THEN currTables
            ELSE Returned(ReportHead \o items \o tablesPart \o numbersPart
                          \o ReportFoot(current.url))

(***************************************************************************)
(* Bounded input sets for createDetailedEmailContent                       *)
(***************************************************************************)
\* The lists compareData can return with a change in them.
ChangeLists ==
    { SelectSeq(CategoryList, LAMBDA c : c \in S) :
        S \in (SUBSET { CategoryList[i] : i \in 1..3 }) \ { {} } }

\* No table, no row-less table any more than scrapeData keeps one, a table
\* of a header row and a row, and a table with null for a row.
HeaderRow == << <<"1">> >>
DataRow == << <<"1">>, <<"1", "0">> >>
ReportTables ==
    { <<>>, << <<HeaderRow>> >>, << <<HeaderRow, DataRow>> >>,
      << <<HeaderRow>>, <<DataRow>> >>, << <<HeaderRow, NullRow>> >> }
ReportNumbers == { <<>>, <<N10>>, <<N10, N11>> }
ReportFields == [tables : Opt(ReportTables), numbers : Opt(ReportNumbers)]
ReportInputs(url) ==
    [mainText : { "status A" }, fields : { Some(f) : f \in ReportFields },
     url : { url }, timestamp : { 0 }, elementText : { "e1" }]

InitReport ==
    /\ oldData \in ReportInputs("previous url")
    /\ newData \in ReportInputs("url")
    /\ diffOut = None
    /\ reportChanges \in ChangeLists
    /\ emailContent = None

\* One call createDetailedEmailContent(reportChanges, oldData, newData).
Render ==
    /\ emailContent = None
    /\ emailContent' = Some(createDetailedEmailContent(reportChanges, oldData, newData))
    /\ UNCHANGED <<oldData, newData, diffOut, reportChanges, runVars, mainVars>>

(***************************************************************************)
(* PIOChecker.run                                                          *)
(***************************************************************************)
Dir == files[checker[1].login]

\* The arguments of a call of sendEmail; a null argument is <<>>.
MailArgs(subject, message, changes, previous, current) ==
    [subject |-> subject, message |-> message, changes |-> changes,
     previousData |-> previous, currentData |-> current]

ChangesMessage == "Changes have been detected in your application status."
ErrorReport(message) == "PIO Checker - Error Report: " \o message

\* The catch block of run without its notification.
CatchSilent(calls, message) ==
    /\ lastError' = message
    /\ log' = calls \o << Ev("sendEmail", ErrorSubject, message) >>
    /\ mail' = Some(MailArgs(ErrorSubject, ErrorReport(message), None, None, None))
    /\ pc' = IF mailTransporter THEN "sendMail" ELSE "returned"

\* The catch block of run without its error report.
CatchWithoutEmail(calls, message) ==
    /\ lastError' = message
    /\ log' = calls \o << sendNotification(ErrorTitle, "An error occurred: " \o message) >>
    /\ mail' = None
    /\ pc' = "returned"

\* The catch block of run starting the run over after its notification.
CatchRestarting(calls, message) ==
    /\ lastError' = message
    /\ log' = calls \o << sendNotification(ErrorTitle, "An error occurred: " \o message) >>
    /\ mail' = None
    /\ pc' = "start"

\* The catch block of run, entered with the calls `calls` made so far: the
\* error notification, then sendEmail up to its first await.
Catch(calls, message) ==
    /\ lastError' = message
    /\ log' = calls \o << sendNotification(ErrorTitle, "An error occurred: " \o message),
                          Ev("sendEmail", ErrorSubject, message) >>
    /\ mail' = Some(MailArgs(ErrorSubject, ErrorReport(message), None, None, None))
    /\ pc' = IF mailTransporter THEN "sendMail" ELSE "returned"

\* run() taking a stored file it cannot read for no file at all.
RunStartIgnoringReadError ==
    /\ pc = "start"
    /\ LET latestFile == getLatestDataFile(Dir)
           calls == <<Ev("getLatestDataFile", "", "")>>
       IN \/ /\ IsSome(latestFile)
             /\ previousData' = Some(ReadFile(Dir, latestFile[1]))
             /\ log' = calls \o <<Ev("readFileSync", "", ""), Ev("scrapeData", "called", "")>>
          \/ /\ ~IsSome(latestFile)
             /\ previousData' = None
             /\ log' = calls \o <<Ev("scrapeData", "called", "")>>
          \/ /\ IsSome(latestFile)
             /\ previousData' = None
             /\ log' = calls \o <<Ev("readFileSync", "threw", ""), Ev("scrapeData", "called", "")>>
    /\ pc' = "launch"
    /\ attempt' = 1
    /\ browser' = "null"
    /\ openSessions' = 0
    /\ UNCHANGED <<diffVars, mainVars, now, utcOffset, files, accounts, mailTransporter, allPc, idx,
                   results, checker, currentData, pending, fetched, written, lastError, mail>>

\* run() up to `await this.scrapeData()`, and scrapeData up to its first await.
RunStart ==
    /\ pc = "start"
    /\ LET latestFile == getLatestDataFile(Dir)
           calls == <<Ev("getLatestDataFile", "", "")>>
       IN \/ /\ IsSome(latestFile)
             /\ previousData' = Some(ReadFile(Dir, latestFile[1]))
             /\ log' = calls \o <<Ev("readFileSync", "", ""), Ev("scrapeData", "called", "")>>
             /\ pc' = "launch"
             /\ attempt' = 1
             /\ UNCHANGED <<lastError, mail>>
          \/ /\ ~IsSome(latestFile)
             /\ previousData' = None
             /\ log' = calls \o <<Ev("scrapeData", "called", "")>>
             /\ pc' = "launch"
             /\ attempt' = 1
             /\ UNCHANGED <<lastError, mail>>
          \/ \* readFileSync or JSON.parse throws
             /\ IsSome(latestFile)
             /\ previousData' = None
             /\ Catch(calls \o <<Ev("readFileSync", "", "")>>, ReadErrorMessage)
             /\ attempt' = 0
    /\ browser' = "null"
    /\ openSessions' = 0
    /\ UNCHANGED <<diffVars, mainVars, now, utcOffset, files, accounts, mailTransporter, allPc, idx,
                   results, checker, currentData, pending, fetched, written>>

CanWait == now < FirstSecond + MaxSeconds

\* The catch block of an attempt giving up at the first failure.
AttemptFailedOnce(message) ==
    /\ lastError' = message
    /\ pending' = "throw"
    /\ pc' = "finally"

\* The catch block of an attempt of scrapeData, up to its await (or its throw).
AttemptFailed(message) ==
    /\ lastError' = message
    /\ IF attempt = Retries
       THEN pending' = "throw" /\ pc' = "finally"
       ELSE pending' = "none" /\ pc' = "retryWait"

\* await puppeteer.launch(...)
Launch ==
    /\ pc = "launch"
    /\ \/ \* `browser` now refers to the new session, whatever it referred to
          /\ browser' = "open"
          /\ openSessions' = openSessions + 1
          /\ pc' = "page"
          /\ UNCHANGED <<lastError, pending>>
       \/ /\ AttemptFailed("launch error")
          /\ UNCHANGED <<browser, openSessions>>
    /\ UNCHANGED <<diffVars, mainVars, now, utcOffset, files, accounts, mailTransporter, allPc, idx,
                   results, checker, previousData, currentData, attempt, log,
                   fetched, written, mail>>

\* Log in, open the application, extract its data: the awaits between the
\* launch and the return of the attempt. A success includes the timed waits
\* (page.waitForTimeout), so at least a second passes.
Scrape ==
    /\ pc = "page"
    /\ \/ /\ CanWait
          /\ now' = now + 1
          /\ \E page \in Pages :
                currentData' = Some(ScrapedData(page, now', checker[1].elementText))
          /\ pending' = "return"
          /\ pc' = "finally"
          /\ UNCHANGED lastError
       \/ /\ AttemptFailed("page error")
          /\ UNCHANGED <<now, currentData>>
    /\ UNCHANGED <<diffVars, mainVars, utcOffset, files, accounts, mailTransporter, allPc, idx, results,
                   checker, previousData, attempt, browser, openSessions, log, fetched, written, mail>>

\* await new Promise(resolve => setTimeout(resolve, 5000))
RetryWait ==
    /\ pc = "retryWait"
    /\ CanWait
    /\ now' = now + 1
    /\ pending' = "retry"
    /\ pc' = "finally"
    /\ UNCHANGED <<diffVars, mainVars, utcOffset, files, accounts, mailTransporter, allPc, idx, results,
                   checker, previousData, currentData, attempt, browser, openSessions, lastError,
                   log, fetched, written, mail>>

\* What `await browser.close()` may leave of the session `browser` refers to:
\* it ends the session ("closed", whether it throws or not), or it throws and
\* the session stays open ("leaked"). Closing an ended session changes nothing.
CloseOutcomes(session) ==
    IF session = "null" THEN { "null" }
    ELSE IF session = "closed" THEN { "closed" }
    ELSE { "closed", "leaked" }

\* The finally block of an attempt without its browser.close().
FinallyBlockWithoutClose(outcomes) ==
    /\ pc = "finally"
    /\ \/ /\ pending = "return"
          /\ pc' = "scraped"
          /\ log' = log \o <<Ev("scrapeData", "returned", "")>>
          /\ UNCHANGED <<attempt, lastError, mail>>
       \/ /\ pending = "retry"
          /\ attempt' = attempt + 1
          /\ pc' = "launch"
          /\ lastError' = ""
          /\ UNCHANGED <<log, mail>>
       \/ /\ pending = "throw"
          /\ Catch(log \o <<Ev("scrapeData", "threw", "")>>, ScrapeErrorMessage(lastError))
          /\ UNCHANGED attempt
    /\ pending' = "none"
    /\ UNCHANGED <<diffVars, mainVars, now, utcOffset, files, accounts, mailTransporter, allPc, idx,
                   results, checker, previousData, currentData, fetched, written,
                   browser, openSessions>>

\* The finally block of an attempt, browser.close() leaving one of `outcomes`
\* (an error of it is logged as a warning), and what follows the block: the
\* return of scrapeData, its throw (caught by run), or the next attempt.
FinallyBlock(outcomes) ==
    /\ pc = "finally"
    /\ \E closing \in outcomes :
          /\ browser' = closing
          /\ openSessions' = (IF browser # closing /\ closing = "closed"
                              THEN openSessions - 1 ELSE openSessions)
    /\ \/ /\ pending = "return"
          /\ pc' = "scraped"
          /\ log' = log \o <<Ev("scrapeData", "returned", "")>>
          /\ UNCHANGED <<attempt, lastError, mail>>
       \/ /\ pending = "retry"
          /\ attempt' = attempt + 1
          /\ pc' = "launch"
          /\ lastError' = ""
          /\ UNCHANGED <<log, mail>>
       \/ /\ pending = "throw"
          /\ Catch(log \o <<Ev("scrapeData", "threw", "")>>, ScrapeErrorMessage(lastError))
          /\ UNCHANGED attempt
    /\ pending' = "none"
    /\ UNCHANGED <<diffVars, mainVars, now, utcOffset, files, accounts, mailTransporter, allPc, idx,
                   results, checker, previousData, currentData, fetched, written>>

\* The finally block with a browser whose close() ends the session: the
\* browser the runs of runAll are followed with.
Finally == FinallyBlock(CloseOutcomes(browser) \ { "leaked" })

\* The finally block with every outcome of close().
FinallyLeaking == FinallyBlock(CloseOutcomes(browser))

\* saveData that skips a snapshot whose main text is already in the store.
saveDataDeduplicated(dir, data, localSeconds) ==
    IF \E f \in dir : f.content.mainText = data.mainText
    THEN dir
    ELSE writeFileSync(dir, FileName(FormatTimestamp(localSeconds)), data)

\* saveData: the file name it builds and the write.
saveData(dir, data, localSeconds) ==
    writeFileSync(dir, FileName(FormatTimestamp(localSeconds)), data)

\* The first-run branch without its notification.
FirstRunCallsSilent == <<>>

\* The calls of the first-run branch, of the no-change branch and of the
\* changes branch of run (the latter up to the await in sendEmail).
FirstRunCalls ==
    <<sendNotification(FirstRunTitle,
                       "Baseline data has been saved. Future runs will detect changes.")>>
\* The changes branch without its report.
ChangesCallsWithoutReport(changes) ==
    <<sendNotification(ChangesTitle, "Changes found: " \o JoinStrings(changes))>>

\* The no-change branch without its notification.
NoChangesCallsSilent == <<>>

NoChangesCalls ==
    <<sendNotification(NoChangesTitle, "Your application status remains unchanged.")>>

ChangesCalls(changes) ==
    <<sendNotification(ChangesTitle, "Changes found: " \o JoinStrings(changes)),
      Ev("sendEmail", ChangesTitle, "")>>

\* run() from the return of scrapeData to its next await or its return.
AfterScrape ==
    /\ pc = "scraped"
    /\ LET login == checker[1].login
           data == currentData[1]
           name == FileName(FormatTimestamp(LocalSeconds))
           saved == log \o <<Ev("saveData", "returned", "")>>
       IN \/ \* fs.writeFileSync throws
             /\ Catch(log \o <<Ev("saveData", "threw", "")>>, WriteErrorMessage)
             /\ UNCHANGED <<files, written>>
          \/ /\ files' = [files EXCEPT ![login] = saveData(@, data, LocalSeconds)]
             /\ written' = [written EXCEPT
                               ![login] = Append(@, [name |-> name, content |-> data])]
             /\ IF ~IsSome(previousData)
                THEN /\ log' = saved \o FirstRunCalls
                     /\ pc' = "returned"
                     /\ lastError' = ""
                     /\ UNCHANGED mail
                ELSE LET changes == compareData(previousData[1], data)
                         compared == saved \o <<Ev("compareData", "returned", "")>>
                     IN IF changes.threw
                        THEN Catch(saved \o <<Ev("compareData", "threw", "")>>,
                                   TypeErrorMessage)
                        ELSE IF changes.value = <<>>
                        THEN /\ log' = compared \o NoChangesCalls
                             /\ pc' = "returned"
                             /\ lastError' = ""
                             /\ UNCHANGED mail
                        ELSE IF mailTransporter
                                /\ createDetailedEmailContent(changes.value,
                                                              previousData[1], data).threw
                        THEN \* sendEmail lets the error of the report through
                             Catch(compared \o ChangesCalls(changes.value)
                                     \o <<Ev("createDetailedEmailContent", "threw", "")>>,
                                   createDetailedEmailContent(changes.value,
                                                              previousData[1], data).error)
                        ELSE /\ log' = compared \o ChangesCalls(changes.value)
                             /\ mail' = Some(MailArgs(ChangesTitle, ChangesMessage,
                                                      Some(changes.value), previousData,
                                                      currentData))
                             /\ pc' = IF mailTransporter THEN "sendMail" ELSE "returned"
                             /\ lastError' = ""
    \* the attempt counter, the session and the last attempt's error were
    \* scrapeData's own
    /\ attempt' = 0
    /\ browser' = "null"
    /\ openSessions' = 0
    /\ UNCHANGED <<diffVars, mainVars, now, utcOffset, accounts, mailTransporter, allPc, idx, results,
                   checker, previousData, currentData, pending, fetched>>

\* sendEmail without its try block: a failure of sendMail reaches the catch
\* block of run.
SendMailUnguarded ==
    /\ pc = "sendMail"
    /\ \/ /\ log' = log \o <<Ev("sendMail", "sent", "")>>
          /\ pc' = "returned"
          /\ UNCHANGED <<lastError, mail>>
       \/ /\ Notified(ErrorTitle) = {}
          /\ Catch(log \o <<Ev("sendMail", "failed", "")>>, "mail error")
       \/ /\ Notified(ErrorTitle) # {}
          /\ log' = log \o <<Ev("sendMail", "failed", "")>>
          /\ pc' = "returned"
          /\ UNCHANGED <<lastError, mail>>
    /\ UNCHANGED <<diffVars, mainVars, now, utcOffset, files, accounts, mailTransporter, allPc, idx,
                   results, checker, previousData, currentData, attempt, pending,
                   browser, openSessions, fetched, written>>

\* sendEmail: await this.mailTransporter.sendMail(mailOptions); a failure is
\* logged and swallowed.
SendMail ==
    /\ pc = "sendMail"
    /\ \E outcome \in {"sent", "failed"} :
          log' = log \o <<Ev("sendMail", outcome, "")>>
    /\ pc' = "returned"
    /\ UNCHANGED <<diffVars, mainVars, now, utcOffset, files, accounts, mailTransporter, allPc, idx,
                   results, checker, previousData, currentData, attempt, pending,
                   browser, openSessions, lastError, fetched, written, mail>>

(***************************************************************************)
(* MultiAccountChecker.runAll                                              *)
(***************************************************************************)
Result(accountId, status, error) ==
    [accountId |-> accountId, status |-> status, error |-> error]

\* The PIOChecker constructor throws on a missing login, password or elementText.
ConstructorThrows(config) ==
    config.login = "" \/ config.password = "" \/ config.elementText = ""

\* What scrapeData did in the run whose calls are `calls`.
FetchOutcome(calls) ==
    IF \E i \in DOMAIN calls : calls[i] = Ev("scrapeData", "returned", "") THEN "returned"
    ELSE IF \E i \in DOMAIN calls : calls[i] = Ev("scrapeData", "threw", "") THEN "threw"
    ELSE "none"

RunAllStart ==
    /\ allPc = "idle"
    /\ allPc' = "loop"
    /\ idx' = 1
    /\ results' = <<>>
    /\ UNCHANGED <<diffVars, mainVars, now, utcOffset, files, accounts, mailTransporter, checker, pc,
                   previousData, currentData, attempt, pending, browser, openSessions, lastError,
                   log, fetched, written, mail>>

\* The loop of runAll leaving at the first record whose checker cannot be built.
CheckAccountStopping ==
    /\ allPc = "loop"
    /\ pc = "idle"
    /\ idx <= Len(accounts)
    /\ LET accountConfig == accounts[idx]
       IN IF ConstructorThrows(accountConfig)
          THEN /\ results' = Append(results,
                      Result(accountConfig.login, "error", Some(MissingConfigMessage)))
               /\ fetched' = Append(fetched, "none")
               /\ idx' = Len(accounts) + 1
               /\ UNCHANGED <<checker, pc, log>>
          ELSE /\ checker' = Some(accountConfig)
               /\ pc' = "start"
               /\ log' = <<>>
               /\ UNCHANGED <<results, fetched, idx>>
    /\ UNCHANGED <<diffVars, mainVars, now, utcOffset, files, accounts, mailTransporter, allPc,
                   previousData, currentData, attempt, pending, browser, openSessions, lastError,
                   written, mail>>

\* One loop iteration up to its first await: new PIOChecker(accountConfig), and
\* either the catch block of the loop or the call of checker.run().
CheckAccount ==
    /\ allPc = "loop"
    /\ pc = "idle"
    /\ idx <= Len(accounts)
    /\ LET accountConfig == accounts[idx]
       IN IF ConstructorThrows(accountConfig)
          THEN /\ results' = Append(results,
                      Result(accountConfig.login, "error", Some(MissingConfigMessage)))
               /\ fetched' = Append(fetched, "none")
               /\ idx' = idx + 1
               /\ UNCHANGED <<checker, pc, log>>
          ELSE /\ checker' = Some(accountConfig)
               /\ pc' = "start"
               /\ log' = <<>>
               /\ UNCHANGED <<results, fetched, idx>>
    /\ UNCHANGED <<diffVars, mainVars, now, utcOffset, files, accounts, mailTransporter, allPc,
                   previousData, currentData, attempt, pending, browser, openSessions, lastError,
                   written, mail>>

\* The rest of the try block going to the next record at once.
RunReturnedWithoutDelay ==
    /\ allPc = "loop"
    /\ pc = "returned"
    /\ results' = Append(results, Result(accounts[idx].login, "success", None))
    /\ fetched' = Append(fetched, FetchOutcome(log))
    /\ idx' = idx + 1
    /\ pc' = "idle"
    /\ checker' = None
    /\ previousData' = None
    /\ currentData' = None
    /\ attempt' = 0
    /\ browser' = "null"
    /\ openSessions' = 0
    /\ lastError' = ""
    /\ log' = <<>>
    /\ mail' = None
    /\ UNCHANGED <<diffVars, mainVars, now, utcOffset, files, accounts, mailTransporter, allPc,
                   pending, written>>

\* checker.run() has returned: the rest of the try block of the loop.
RunReturned ==
    /\ allPc = "loop"
    /\ pc = "returned"
    /\ results' = Append(results, Result(accounts[idx].login, "success", None))
    /\ fetched' = Append(fetched, FetchOutcome(log))
    /\ IF Len(accounts) > 1
       THEN allPc' = "delay" /\ UNCHANGED idx
       ELSE idx' = idx + 1 /\ UNCHANGED allPc
    /\ pc' = "idle"
    /\ checker' = None
    /\ previousData' = None
    /\ currentData' = None
    /\ attempt' = 0
    /\ browser' = "null"
    /\ openSessions' = 0
    /\ lastError' = ""
    /\ log' = <<>>
    /\ mail' = None
    /\ UNCHANGED <<diffVars, mainVars, now, utcOffset, files, accounts, mailTransporter, pending,
                   written>>

\* await new Promise(resolve => setTimeout(resolve, 3000))
Delay ==
    /\ allPc = "delay"
    /\ CanWait
    /\ now' = now + 1
    /\ idx' = idx + 1
    /\ allPc' = "loop"
    /\ UNCHANGED <<diffVars, mainVars, utcOffset, files, accounts, mailTransporter, results, checker, pc,
                   previousData, currentData, attempt, pending, browser, openSessions, lastError,
                   log, fetched, written, mail>>

RunAllReturn ==
    /\ allPc = "loop"
    /\ pc = "idle"
    /\ idx > Len(accounts)
    /\ allPc' = "returned"
    /\ UNCHANGED <<diffVars, mainVars, now, utcOffset, files, accounts, mailTransporter, idx, results,
                   checker, pc, previousData, currentData, attempt, pending, browser, openSessions,
                   lastError, log, fetched, written, mail>>

(***************************************************************************)
(* The repository test (src/test.js): a checker whose scrapeData returns   *)
(* fixed data, run twice on an emptied data directory.                     *)
(***************************************************************************)
\* runTest up to its first await: the checker is built, the data directory
\* is emptied, and run() is called.
RunTest ==
    /\ allPc = "idle"
    /\ LET config == accounts[1]
       IN IF ConstructorThrows(config)
          THEN /\ allPc' = "tested"
               /\ UNCHANGED <<files, written, checker, pc>>
          ELSE /\ files' = [files EXCEPT ![config.login] = {}]
               /\ written' = [written EXCEPT ![config.login] = <<>>]
               /\ checker' = Some(config)
               /\ pc' = "stubStart"
               /\ allPc' = "test1"
    /\ UNCHANGED <<diffVars, mainVars, now, utcOffset, accounts, mailTransporter, idx, results,
                   previousData, currentData, attempt, pending, browser, openSessions, lastError,
                   log, fetched, mail>>

\* run() of the test's checker up to the return of its scrapeData, which
\* builds the same page every time, stamped with the time of the call.
StubRunStart ==
    /\ pc = "stubStart"
    /\ LET latestFile == getLatestDataFile(Dir)
           first == <<Ev("getLatestDataFile", "", "")>>
           scraped == <<Ev("scrapeData", "called", ""), Ev("scrapeData", "returned", "")>>
       IN \/ /\ IsSome(latestFile)
             /\ previousData' = Some(ReadFile(Dir, latestFile[1]))
             /\ currentData' = Some(ScrapedData(PageA, now, checker[1].elementText))
             /\ log' = first \o <<Ev("readFileSync", "", "")>> \o scraped
             /\ pc' = "scraped"
             /\ UNCHANGED <<lastError, mail>>
          \/ /\ ~IsSome(latestFile)
             /\ previousData' = None
             /\ currentData' = Some(ScrapedData(PageA, now, checker[1].elementText))
             /\ log' = first \o scraped
             /\ pc' = "scraped"
             /\ UNCHANGED <<lastError, mail>>
          \/ \* readFileSync or JSON.parse throws
             /\ IsSome(latestFile)
             /\ previousData' = None
             /\ Catch(first \o <<Ev("readFileSync", "", "")>>, ReadErrorMessage)
             /\ UNCHANGED currentData
    /\ UNCHANGED <<diffVars, mainVars, now, utcOffset, files, accounts, mailTransporter, allPc, idx,
                   results, checker, attempt, pending, browser, openSessions, fetched, written>>

\* A run() of the test has returned: the second run is called, or runTest
\* returns. The clock may have moved on to the next second meanwhile.
TestRunReturned ==
    /\ allPc \in {"test1", "test2"}
    /\ pc = "returned"
    /\ IF allPc = "test1"
       THEN allPc' = "test2" /\ pc' = "stubStart" /\ UNCHANGED checker
       ELSE allPc' = "tested" /\ pc' = "idle" /\ checker' = None
    /\ \/ UNCHANGED now
       \/ CanWait /\ now' = now + 1
    /\ previousData' = None
    /\ currentData' = None
    /\ lastError' = ""
    /\ log' = <<>>
    /\ mail' = None
    /\ UNCHANGED <<diffVars, mainVars, utcOffset, files, accounts, mailTransporter, idx, results,
                   attempt, pending, browser, openSessions, fetched, written>>

\* Daylight saving time ends. Local time is read by saveData alone, so the
\* change is observed between two runs.
DstEnd ==
    /\ utcOffset = DstShift
    /\ allPc = "loop"
    /\ pc = "idle"
    /\ utcOffset' = 0
    /\ UNCHANGED <<diffVars, mainVars, now, files, accounts, mailTransporter, allPc, idx, results,
                   checker, pc, previousData, currentData, attempt, pending, browser, openSessions,
                   lastError, log, fetched, written, mail>>

(***************************************************************************)
(* The main process (src/unnamed/part_002): runCheck and what calls it.    *)
(* Each call of runCheck is an invocation of its own; mainPc holds the     *)
(* position of each, "runAll" while it awaits checker.runAll() and         *)
(* "returned" afterwards. What runAll does is specified by Spec; here it   *)
(* is the await it is to runCheck.                                         *)
(***************************************************************************)
\* The calls of runCheck in one behaviour.
MaxCalls == 3

\* What reading accounts.json gives: a non-empty array, something else that
\* parses, or an error.
AccountsFiles == { "valid", "empty", "unreadable" }

CheckCall(caller, began) == [caller |-> caller, began |-> began]
StatusEvent(call, status) == [call |-> call, status |-> status]

\* runCheck without its test of isChecking.
runCheckUnguarded(caller) ==
    /\ Len(checkCalls) < MaxCalls
    /\ LET call == Len(checkCalls) + 1
       IN /\ accountsFile = "valid"
          /\ lastCheck' = Some(call)
          /\ isChecking' = TRUE
          /\ statusEvents' = Append(statusEvents, StatusEvent(call, "running"))
          /\ checkCalls' = Append(checkCalls, CheckCall(caller, "started"))
          /\ mainPc' = Append(mainPc, "runAll")
    /\ UNCHANGED <<diffVars, runVars, accountsFile, schedVars>>

\* runCheck from its call to its first await or its return.
runCheck(caller) ==
    /\ Len(checkCalls) < MaxCalls
    /\ LET call == Len(checkCalls) + 1
       IN IF isChecking
          THEN \* 'Check already in progress'
               /\ checkCalls' = Append(checkCalls, CheckCall(caller, "busy"))
               /\ mainPc' = Append(mainPc, "returned")
               /\ UNCHANGED <<isChecking, lastCheck, statusEvents>>
          ELSE IF accountsFile = "unreadable"
          THEN /\ checkCalls' = Append(checkCalls, CheckCall(caller, "readError"))
               /\ statusEvents' = Append(statusEvents, StatusEvent(call, "error"))
               /\ mainPc' = Append(mainPc, "returned")
               /\ UNCHANGED <<isChecking, lastCheck>>
          ELSE IF accountsFile = "empty"
          THEN /\ checkCalls' = Append(checkCalls, CheckCall(caller, "noAccounts"))
               /\ statusEvents' = Append(statusEvents, StatusEvent(call, "error"))
               /\ mainPc' = Append(mainPc, "returned")
               /\ UNCHANGED <<isChecking, lastCheck>>
          ELSE /\ lastCheck' = Some(call)
               /\ \/ \* await checker.runAll()
                     /\ isChecking' = TRUE
                     /\ statusEvents' = Append(statusEvents, StatusEvent(call, "running"))
                     /\ checkCalls' = Append(checkCalls, CheckCall(caller, "started"))
                     /\ mainPc' = Append(mainPc, "runAll")
                  \/ \* new MultiAccountChecker throws: catch, finally
                     /\ isChecking' = FALSE
                     /\ statusEvents' = statusEvents \o <<StatusEvent(call, "running"),
                                                          StatusEvent(call, "error")>>
                     /\ checkCalls' = Append(checkCalls, CheckCall(caller, "constructorThrew"))
                     /\ mainPc' = Append(mainPc, "returned")
    /\ UNCHANGED <<diffVars, runVars, accountsFile, schedVars>>

\* The callers of runCheck: a cron job's callback, the tray menu's 'Check
\* Now', the 'run-check' IPC handler.
ScheduledCheck == jobs # {} /\ runCheck("scheduler")
TrayCheckNow == runCheck("tray")
IpcRunCheck == runCheck("ipc")

\* checker.runAll() settles, runCheck having no finally block: the flag is
\* reset at the end of the try block only.
RunAllSettledWithoutFinally ==
    \E call \in DOMAIN mainPc :
        /\ mainPc[call] = "runAll"
        /\ \E status \in {"completed", "error"} :
              /\ statusEvents' = Append(statusEvents, StatusEvent(call, status))
              /\ isChecking' = (status = "error")
        /\ mainPc' = [mainPc EXCEPT ![call] = "returned"]
        /\ UNCHANGED <<diffVars, runVars, accountsFile, lastCheck, checkCalls, schedVars>>

\* checker.runAll() settles: the rest of runCheck's try block or its catch
\* block, and its finally block.
RunAllSettled ==
    \E call \in DOMAIN mainPc :
        /\ mainPc[call] = "runAll"
        /\ \E status \in {"completed", "error"} :
              statusEvents' = Append(statusEvents, StatusEvent(call, status))
        /\ isChecking' = FALSE
        /\ mainPc' = [mainPc EXCEPT ![call] = "returned"]
        /\ UNCHANGED <<diffVars, runVars, accountsFile, lastCheck, checkCalls, schedVars>>

\* The 'save-accounts' IPC handler: the content is written if it parses.
SaveAccounts ==
    /\ \E content \in {"valid", "empty", "not JSON"} :
          accountsFile' = IF content = "not JSON" THEN accountsFile ELSE content
    /\ UNCHANGED <<diffVars, runVars, isChecking, mainPc, lastCheck, statusEvents,
                   checkCalls, schedVars>>

\* The calls of setupScheduler in one behaviour, the one at the start of the
\* application included.
MaxSetups == 3

\* The job the call number `setup` of setupScheduler creates for `day` (for
\* "every" with an interval schedule).
Job(setup, day) == [setup |-> setup, day |-> day]

\* Two days of the week, in the order of the `days` array.
WeekDays == <<"monday", "friday">>

Settings(enabled, type, interval, days) ==
    [scheduleEnabled |-> enabled, scheduleType |-> type, scheduleInterval |-> interval,
     scheduleDays |-> days]

\* Settings as the renderer sends them; scheduleDays is given as the set of
\* the days whose entry is enabled.
SettingsSet ==
    { Settings(FALSE, "interval", 30, {}),
      Settings(TRUE, "interval", 30, {}),
      Settings(TRUE, "interval", 0, {}),
      Settings(TRUE, "days", 30, {}),
      Settings(TRUE, "days", 30, {"monday"}),
      Settings(TRUE, "days", 30, {"monday", "friday"}) }

\* setupScheduler(settings), called as call number `setup` with cronJob =
\* job and the jobs `started` running: the new cronJob and the jobs running
\* afterwards.
setupScheduler(job, started, settings, setup) ==
    LET cleared == IF IsSome(job) THEN started \ { job[1] } ELSE started
        enabledDays == SelectSeq(WeekDays, LAMBDA day : day \in settings.scheduleDays)
        cronJobs ==
            IF ~settings.scheduleEnabled THEN <<>>
            ELSE IF settings.scheduleType = "interval"
            THEN IF settings.scheduleInterval > 0 THEN <<Job(setup, "every")>> ELSE <<>>
            ELSE [i \in DOMAIN enabledDays |-> Job(setup, enabledDays[i])]
    IN [cronJob |-> IF cronJobs = <<>> THEN None ELSE Some(cronJobs[1]),
        jobs |-> cleared \cup { cronJobs[i] : i \in DOMAIN cronJobs }]

\* The 'save-settings' IPC handler: saveSettings(settings), whose lastCheck is
\* the one the renderer loaded (the current one or none), and
\* setupScheduler(settings).
SaveSettings ==
    /\ setups < MaxSetups
    /\ \E settings \in SettingsSet :
          LET scheduler == setupScheduler(cronJob, jobs, settings, setups + 1)
          IN /\ cronJob' = scheduler.cronJob
             /\ jobs' = scheduler.jobs
    /\ setups' = setups + 1
    /\ lastCheck' \in { lastCheck, None }
    /\ UNCHANGED <<diffVars, runVars, isChecking, mainPc, accountsFile, statusEvents,
                   checkCalls>>

(***************************************************************************)
(* Specifications                                                          *)
(***************************************************************************)
\* The main process is not running.
MainIdle ==
    /\ isChecking = FALSE
    /\ mainPc = <<>>
    /\ accountsFile = "valid"
    /\ lastCheck = None
    /\ statusEvents = <<>>
    /\ checkCalls = <<>>
    /\ cronJob = None
    /\ jobs = {}
    /\ setups = 0

DiffIdle ==
    /\ oldData = None
    /\ newData = None
    /\ diffOut = None
    /\ reportChanges = <<>>
    /\ emailContent = None

RunIdle ==
    /\ now = FirstSecond
    /\ utcOffset = DstShift
    /\ files = [d \in DirNames |-> {}]
    /\ accounts = <<>>
    /\ mailTransporter = FALSE
    /\ allPc = "off"
    /\ idx = 0
    /\ results = <<>>
    /\ checker = None
    /\ pc = "idle"
    /\ previousData = None
    /\ currentData = None
    /\ attempt = 0
    /\ pending = "none"
    /\ browser = "null"
    /\ openSessions = 0
    /\ lastError = ""
    /\ log = <<>>
    /\ fetched = <<>>
    /\ written = [d \in DirNames |-> <<>>]
    /\ mail = None

\* The state before runAll or the test is called, with one of accountLists
\* loaded and the directory of u1 empty or holding one of priorFiles.
InitWith(accountLists, priorFiles) ==
    /\ DiffIdle
    /\ now = FirstSecond
    /\ utcOffset = DstShift
    /\ \E prior \in { <<>> } \cup { <<f>> : f \in priorFiles } :
          /\ files = [d \in DirNames |-> IF d = "u1" THEN { prior[i] : i \in DOMAIN prior } ELSE {}]
          /\ written = [d \in DirNames |-> IF d = "u1" THEN prior ELSE <<>>]
    /\ accounts \in accountLists
    /\ mailTransporter \in BOOLEAN
    /\ allPc = "idle"
    /\ idx = 0
    /\ results = <<>>
    /\ checker = None
    /\ pc = "idle"
    /\ previousData = None
    /\ currentData = None
    /\ attempt = 0
    /\ pending = "none"
    /\ browser = "null"
    /\ openSessions = 0
    /\ lastError = ""
    /\ log = <<>>
    /\ fetched = <<>>
    /\ mail = None
    /\ MainIdle

Init == InitWith(AccountLists, PriorFiles)

\* One record, every kind of stored file, and a browser whose close() may
\* throw and leave the session open.
InitRun == InitWith([1..1 -> AccountConfigs], PriorFiles \cup { MalformedFile })

NextRun ==
    \/ RunAllStart
    \/ CheckAccount
    \/ RunStart
    \/ Launch
    \/ Scrape
    \/ RetryWait
    \/ FinallyLeaking
    \/ AfterScrape
    \/ SendMail
    \/ RunReturned
    \/ RunAllReturn

SpecRun == InitRun /\ [][NextRun]_vars

\* The event loop runs every continuation that is ready, and the awaited
\* browser, timer and mail calls settle.
SpecRunFair == SpecRun /\ WF_vars(NextRun)

Next ==
    \/ RunAllStart
    \/ CheckAccount
    \/ RunStart
    \/ Launch
    \/ Scrape
    \/ RetryWait
    \/ Finally
    \/ AfterScrape
    \/ SendMail
    \/ RunReturned
    \/ Delay
    \/ RunAllReturn
    \/ DstEnd
    \/ RunTest
    \/ StubRunStart
    \/ TestRunReturned

Spec == Init /\ [][Next]_vars

NextDiff == Compare

InitRender == InitReport /\ RunIdle /\ MainIdle

NextReport == Render

SpecReport == InitRender /\ [][NextReport]_vars

InitMain ==
    /\ DiffIdle
    /\ RunIdle
    /\ isChecking = FALSE
    /\ mainPc = <<>>
    /\ accountsFile \in AccountsFiles
    /\ lastCheck = None
    /\ statusEvents = <<>>
    /\ checkCalls = <<>>
    \* app.whenReady: setupScheduler(loadSettings())
    /\ \E settings \in SettingsSet :
          /\ cronJob = setupScheduler(None, {}, settings, 1).cronJob
          /\ jobs = setupScheduler(None, {}, settings, 1).jobs
    /\ setups = 1

NextMain ==
    \/ ScheduledCheck
    \/ TrayCheckNow
    \/ IpcRunCheck
    \/ RunAllSettled
    \/ SaveAccounts

\* The scheduler as the application start left it.
SpecMain == InitMain /\ [][NextMain]_vars

\* The scheduler set up again and again, and the checks its jobs start.
NextSched ==
    \/ SaveSettings
    \/ ScheduledCheck
    \/ RunAllSettled

SpecSched == InitMain /\ [][NextSched]_vars

\* checker.runAll() settles (what Spec and SpecRunFair are about).
SpecMainFair == SpecMain /\ WF_vars(RunAllSettled)

InitCompare == InitDiff /\ RunIdle /\ MainIdle

SpecDiff == InitCompare /\ [][NextDiff]_vars

(***************************************************************************)
(* Properties                                                              *)
(***************************************************************************)
FetchSucceeded == LogHas(Ev("scrapeData", "returned", ""))
SaveSucceeded == LogHas(Ev("saveData", "returned", ""))
RunEnded == pc = "returned"
Range(seq) == { seq[i] : i \in DOMAIN seq }

\* C1: when runAll has processed three records and scrapeData threw for the
\* second one only, the results are three entries in input order, the second
\* with status 'error' and an error message, the first and third 'success'.
MultiRecordIsolation ==
    (allPc = "returned" /\ Len(accounts) = 3
        /\ fetched = <<"returned", "threw", "returned">>)
    => /\ Len(results) = 3
       /\ \A i \in 1..3 : results[i].accountId = accounts[i].login
       /\ results[2].status = "error"
       /\ IsSome(results[2].error)
       /\ results[1].status = "success"
       /\ results[3].status = "success"

\* C2: the N snapshots saved to a directory so far are N distinct files, named
\* in strictly increasing order of capture, and getLatestDataFile returns the
\* file saved last.
HistoryAppendOnly ==
    \A d \in DirNames :
        LET w == written[d]
        IN /\ Cardinality(files[d]) = Len(w)
           /\ \A i, j \in DOMAIN w : i < j => NameLess(w[i].name, w[j].name)
           /\ Len(w) > 0 => getLatestDataFile(files[d]) = Some(w[Len(w)].name)

\* C3: every snapshot file ever written is still in its directory with the
\* content it was written with.
WriteOnceStore ==
    \A d \in DirNames : \A i \in DOMAIN written[d] : written[d][i] \in files[d]

\* The run in flight found no snapshot file when it started.
EmptyHistoryRun == Called("getLatestDataFile") /\ ~Called("readFileSync")

FirstRunOutcome ==
    /\ ~Called("compareData")
    /\ Cardinality(Dir) = 1
    /\ Len(written[checker[1].login]) = 1
    /\ Cardinality(Notified(FirstRunTitle)) = 1
    /\ ~Called("sendEmail")
    /\ ~Called("sendMail")

\* C4, as claimed: a run that started with an empty history and whose fetch
\* succeeded has, when it ends, not called compareData, stored exactly one
\* snapshot, emitted exactly one 'First Run' notification and sent no email.
FirstRunBaselineAsClaimed ==
    (RunEnded /\ EmptyHistoryRun /\ FetchSucceeded) => FirstRunOutcome

\* C4, amended: the same for a run that started with an empty history, whose
\* fetch succeeded and whose saveData did not throw.
FirstRunBaseline ==
    (RunEnded /\ EmptyHistoryRun /\ FetchSucceeded /\ ~LogHas(Ev("saveData", "threw", "")))
    => FirstRunOutcome

FirstRunBaselineWitness ==
    /\ RunEnded /\ EmptyHistoryRun /\ FetchSucceeded
    /\ ~LogHas(Ev("saveData", "threw", ""))
    /\ mailTransporter

\* C5: a run that has ended has emitted at least one notification of kind
\* baseline, no-change, changes-detected or error.
NoSilentRun ==
    RunEnded =>
        \E title \in {FirstRunTitle, NoChangesTitle, ChangesTitle, ErrorTitle} :
            Notified(title) # {}

\* A run that ended after its comparison threw, with the error mail failing too.
NoSilentRunWitness ==
    /\ RunEnded
    /\ LogHas(Ev("compareData", "threw", ""))
    /\ LogHas(Ev("sendMail", "failed", ""))
    /\ Notified(ErrorTitle) # {}

\* C6: a comparison of two snapshots with different elementText does not
\* return a list of changes: it throws.
CrossRecordRejection ==
    (/\ Called("compareData")
     /\ IsSome(previousData) /\ IsSome(currentData)
     /\ previousData[1].elementText # currentData[1].elementText)
    => ~LogHas(Ev("compareData", "returned", ""))

\* Every comparison and every baseline, no-change or changes notification of
\* the run in flight comes after a saveData that returned.
SavedFirst ==
    \A i \in DOMAIN log :
        (\/ log[i].op = "compareData"
         \/ /\ log[i].op = "sendNotification"
            /\ log[i].arg \in {FirstRunTitle, NoChangesTitle, ChangesTitle})
        => \E j \in 1..(i - 1) : log[j] = Ev("saveData", "returned", "")

\* The snapshot the run in flight captured is in its directory, under the
\* name saveData builds.
Stored ==
    [name |-> FileName(FormatTimestamp(LocalSeconds)), content |-> currentData[1]]
        \in Dir

PastSave == pc \in {"sendMail", "returned"}

Notifications == { i \in DOMAIN log : log[i].op = "sendNotification" }
CallsOf(op) == { i \in DOMAIN log : log[i].op = op }
Compared2 == LogHas(Ev("compareData", "returned", ""))
RunChanges == compareData(previousData[1], currentData[1]).value
\* sendEmail could not build the detailed report of the run in flight.
BuildFailed == LogHas(Ev("createDetailedEmailContent", "threw", ""))

\* C11: a run that has ended and whose comparison returned has, on an empty
\* list of changes, emitted the 'No Changes' notification and nothing else and
\* called sendEmail not at all; on a non-empty list it has emitted the
\* 'Changes Detected!' notification naming the categories, no baseline and
\* no 'No Changes' one, and right after it called sendEmail for the detailed
\* report, once, with the list, the previous and the current snapshot (one
\* sendMail follows when a transporter is set). When that call cannot build
\* the report of a stored snapshot that is no snapshot of the program's, the
\* call has still been made, once, and the error path follows it.
OutcomeBranching ==
    (RunEnded /\ Compared2) =>
        /\ IsSome(previousData)
        /\ IF RunChanges = <<>>
           THEN /\ Cardinality(Notifications) = 1
                /\ Notified(NoChangesTitle) # {}
                /\ CallsOf("sendEmail") = {}
                /\ CallsOf("sendMail") = {}
                /\ mail = None
           ELSE /\ \E i \in DOMAIN log :
                      /\ log[i] = sendNotification(ChangesTitle,
                                      "Changes found: " \o JoinStrings(RunChanges))
                      /\ i < Len(log)
                      /\ log[i + 1] = Ev("sendEmail", ChangesTitle, "")
                /\ Cardinality({ i \in DOMAIN log : log[i] = Ev("sendEmail", ChangesTitle, "") }) = 1
                /\ Notified(FirstRunTitle) = {} /\ Notified(NoChangesTitle) = {}
                /\ Cardinality(Notified(ChangesTitle)) = 1
                /\ Cardinality(CallsOf("sendMail")) = (IF mailTransporter THEN 1 ELSE 0)
                /\ IF BuildFailed
                   THEN /\ mailTransporter
                        /\ createDetailedEmailContent(RunChanges, previousData[1],
                                                      currentData[1]).threw
                   ELSE /\ Cardinality(Notifications) = 1
                        /\ Cardinality(CallsOf("sendEmail")) = 1
                        /\ mail = Some(MailArgs(ChangesTitle, ChangesMessage,
                                                Some(RunChanges), previousData,
                                                currentData))

\* A run that found the main content and the numbers changed and mailed its
\* report.
OutcomeBranchingWitness ==
    /\ RunEnded /\ Compared2
    /\ RunChanges = <<MainContentChanged, NumbersChanged>>
    /\ LogHas(Ev("sendMail", "sent", ""))

\* The step of the run in flight that failed, if one did.
PastCatch == pc \in {"sendMail", "returned"}
ReadFailed == PastCatch /\ Called("readFileSync") /\ ~Called("scrapeData")
FetchFailed == LogHas(Ev("scrapeData", "threw", ""))
SaveFailed == LogHas(Ev("saveData", "threw", ""))
CompareFailed == LogHas(Ev("compareData", "threw", ""))
RunFailed == ReadFailed \/ FetchFailed \/ SaveFailed \/ CompareFailed

\* C12: a run in which reading the previous snapshot, fetching, saving or
\* comparing failed has emitted the error notification with the failure's
\* message and then called sendEmail with the error report, one sendMail being
\* attempted at most; and it returns: runAll records 'success' for every record
\* whose run was called, 'error' only for those whose checker was not built.
FailureAbsorption ==
    /\ RunFailed =>
          /\ \/ ReadFailed /\ lastError = ReadErrorMessage
             \/ SaveFailed /\ lastError = WriteErrorMessage
             \/ CompareFailed /\ lastError = TypeErrorMessage
             \/ FetchFailed /\ \E m \in {"launch error", "page error"} :
                                   lastError = ScrapeErrorMessage(m)
          /\ \E i \in DOMAIN log :
                /\ log[i] = sendNotification(ErrorTitle, "An error occurred: " \o lastError)
                /\ i < Len(log)
                /\ log[i + 1] = Ev("sendEmail", ErrorSubject, lastError)
          /\ Cardinality(Notifications) = 1
          /\ mail = Some(MailArgs(ErrorSubject, ErrorReport(lastError), None, None, None))
          /\ Cardinality(CallsOf("sendMail")) <= 1
          /\ PastCatch
    /\ \A i \in DOMAIN results :
          /\ fetched[i] # "none" => results[i] = Result(accounts[i].login, "success", None)
          /\ results[i].status = "error" => ConstructorThrows(accounts[i])

\* The run of the second record failed in scrapeData, its error mail was
\* sent, and runAll has recorded it.
FailureAbsorptionWitness ==
    /\ Len(results) = 2
    /\ fetched[2] = "threw"
    /\ results[2].status = "success"
    /\ pc = "returned" /\ SaveFailed /\ LogHas(Ev("sendMail", "sent", ""))

\* The outcome of the run in flight is the one its steps determine: one
\* notification, the error one iff a step failed (the error one on top of
\* the changes one iff the detailed report could not be built).
OutcomeKept ==
    /\ Cardinality(Notifications) = (IF BuildFailed THEN 2 ELSE 1)
    /\ (RunFailed \/ BuildFailed) <=> Notified(ErrorTitle) # {}
    /\ BuildFailed => Notified(ChangesTitle) # {}
    /\ SaveSucceeded => Stored

\* A step that appends to the results of runAll.
Recorded == results' # results

\* C13: a run that has ended after sendMail failed has attempted it once, as
\* its last call, and has the outcome its steps determine, the snapshot stored;
\* runAll then records 'success' for it and goes on to the next record. Without
\* a transporter sendMail is never attempted and the outcome is the same.
NotificationFailuresAbsorbed ==
    /\ [](/\ (RunEnded /\ Called("sendMail")) =>
                /\ mailTransporter
                /\ Cardinality(CallsOf("sendMail")) = 1
                /\ log[Len(log)].op = "sendMail"
                /\ OutcomeKept
          /\ ~mailTransporter => (CallsOf("sendMail") = {} /\ pc # "sendMail")
          /\ (RunEnded /\ ~mailTransporter) => OutcomeKept)
    /\ [][(RunEnded /\ allPc = "loop" /\ Recorded
            /\ (LogHas(Ev("sendMail", "failed", "")) \/ ~mailTransporter))
           => /\ results' = Append(results, Result(accounts[idx].login, "success", None))
              /\ (idx' = idx + 1 \/ allPc' = "delay")
              /\ pc' = "idle"]_vars

\* The report of a run that found changes could not be delivered; the run
\* has ended all the same, its snapshot stored.
NotificationFailuresAbsorbedWitness ==
    /\ RunEnded
    /\ Notified(ChangesTitle) # {}
    /\ LogHas(Ev("sendMail", "failed", ""))
    /\ Stored
    /\ Len(accounts) > idx

\* C14: runAll has one result per record it is done with, the i-th carrying
\* the login of the i-th account; the run in flight is that of the next
\* record; and when runAll returns, every record has its result.
ResultListShape ==
    /\ Len(results) = Len(fetched)
    /\ Len(results) <= Len(accounts)
    /\ \A i \in DOMAIN results :
          /\ results[i].accountId = accounts[i].login
          /\ results[i].status \in {"success", "error"}
    /\ allPc = "loop" => Len(results) = idx - 1
    /\ allPc = "delay" => Len(results) = idx
    /\ (allPc = "loop" /\ IsSome(checker)) => checker[1] = accounts[idx]
    /\ allPc = "returned" => Len(results) = Len(accounts)

\* runAll has returned three results: the first record's checker could not
\* be built and the second's fetch failed.
ResultListShapeWitness ==
    /\ allPc = "returned"
    /\ Len(results) = 3
    /\ results[1].status = "error"
    /\ fetched = <<"none", "threw", "returned">>

\* Two snapshots of the same page content.
SamePage(a, b) == a.mainText = b.mainText /\ a.fields = b.fields
\* Everything written to the directory of the run in flight, and what the
\* run fetched, is the same page.
IdenticalFetches ==
    /\ IsSome(checker)
    /\ IsSome(currentData)
    /\ \A i \in DOMAIN written[checker[1].login] :
          SamePage(written[checker[1].login][i].content, currentData[1])
OnlyNotified(title) ==
    Cardinality(Notifications) = 1 /\ Notified(title) # {}
InTest == allPc \in {"test1", "test2"}

\* C15, as claimed: in the test, the first run ends with the baseline
\* notification and the second with 'No Changes'; neither emits 'Changes
\* Detected!'.
TwoRunScenarioAsClaimed ==
    (InTest /\ RunEnded) =>
        /\ allPc = "test1" => OnlyNotified(FirstRunTitle)
        /\ allPc = "test2" => OnlyNotified(NoChangesTitle)
        /\ Notified(ChangesTitle) = {}

\* C15, amended: runs that fetch the page every snapshot of the directory
\* holds never emit 'Changes Detected!'; one that ends with no step failed
\* emits the baseline notification when its snapshot is the first written to
\* the directory and 'No Changes' otherwise. In the test that is the baseline
\* for the first run and 'No Changes' for the second when the first one's
\* snapshot was written.
TwoRunScenario ==
    /\ IdenticalFetches => Notified(ChangesTitle) = {}
    /\ (RunEnded /\ ~RunFailed /\ IdenticalFetches) =>
          IF Len(written[checker[1].login]) = 1
          THEN OnlyNotified(FirstRunTitle)
          ELSE OnlyNotified(NoChangesTitle)
    /\ (InTest /\ IsSome(currentData)) => IdenticalFetches
    /\ (allPc = "test1" /\ RunEnded /\ ~RunFailed) => OnlyNotified(FirstRunTitle)
    /\ (allPc = "test2" /\ RunEnded /\ ~RunFailed
          /\ Len(written[checker[1].login]) = 2) => OnlyNotified(NoChangesTitle)

\* The second run of the test has ended with 'No Changes'; it ran within
\* the second of the first, so its snapshot took the place of the first's.
TwoRunScenarioWitness ==
    /\ allPc = "test2"
    /\ RunEnded
    /\ OnlyNotified(NoChangesTitle)
    /\ Len(written[checker[1].login]) = 2
    /\ Cardinality(Dir) = 1

\* The run in flight fetched the page its previous snapshot holds.
FetchedSame ==
    /\ IsSome(previousData)
    /\ IsSome(currentData)
    /\ SamePage(previousData[1], currentData[1])

ComparisonTarget ==
    Called("compareData") =>
        LET w == written[checker[1].login]
        IN /\ Len(w) >= 2
           /\ w[Len(w)].content = currentData[1]
           /\ previousData = Some(w[Len(w) - 1].content)

\* The snapshot files of a directory: those getLatestDataFile's filter keeps.
Snapshots(dir) == { f \in dir : f.name.prefix = Prefix /\ f.name.suffix = Suffix }

\* C20: for every directory, getLatestDataFile returns null iff it holds no
\* snapshot file; otherwise it returns the name of one of its snapshot files,
\* no other name of the directory is greater, and no snapshot of the directory
\* was captured later than the one it names.
LatestLookup ==
    \A d \in DirNames :
        LET latest == getLatestDataFile(files[d])
        IN /\ latest = None <=> Snapshots(files[d]) = {}
           /\ IsSome(latest) =>
                 /\ \E f \in Snapshots(files[d]) : f.name = latest[1]
                 /\ \A f \in Snapshots(files[d]) :
                       /\ f.name = latest[1] \/ NameLess(f.name, latest[1])
                       /\ f.content.timestamp <= ReadFile(files[d], latest[1]).timestamp

(***************************************************************************)
(* Properties of the main process (specification SpecMain)                 *)
(***************************************************************************)
\* The invocations of runCheck that await runAll.
InFlight == { call \in DOMAIN mainPc : mainPc[call] = "runAll" }
\* A step that is a call of runCheck.
CheckCalled == checkCalls' # checkCalls

\* C17: at most one invocation of runCheck awaits runAll, and isChecking is
\* set while one does; a call of runCheck made while isChecking is set
\* returns as 'busy' at once and changes neither the flag, the settings, the
\* status events nor any other invocation.
OverlapRejected ==
    /\ [](/\ Cardinality(InFlight) <= 1
          /\ InFlight # {} => isChecking)
    /\ [][(isChecking /\ CheckCalled) =>
             /\ Len(checkCalls') = Len(checkCalls) + 1
             /\ checkCalls'[Len(checkCalls')].began = "busy"
             /\ mainPc' = Append(mainPc, "returned")
             /\ UNCHANGED <<isChecking, lastCheck, statusEvents, accountsFile>>]_vars

\* A scheduled check awaits runAll; 'Check Now' and 'run-check' came
\* meanwhile and were turned away.
OverlapRejectedWitness ==
    /\ Len(checkCalls) = 3
    /\ checkCalls[1] = CheckCall("scheduler", "started")
    /\ checkCalls[2] = CheckCall("tray", "busy")
    /\ checkCalls[3] = CheckCall("ipc", "busy")
    /\ InFlight = {1}
    /\ statusEvents = <<StatusEvent(1, "running")>>

(***************************************************************************)
(* Properties of compareData (specification SpecDiff)                      *)
(***************************************************************************)
Compared == IsSome(diffOut)
Categories == Range(diffOut[1].value)
OldTables == OrEmpty(oldData.fields[1].tables)
NewTables == OrEmpty(newData.fields[1].tables)
OldNumbers == OrEmpty(oldData.fields[1].numbers)
NewNumbers == OrEmpty(newData.fields[1].numbers)

\* C7: compareData(s, s) returns the empty list.
NoOpDiff ==
    (Compared /\ oldData = newData) => diffOut[1] = Returned(<<>>)

NoOpDiffWitness ==
    /\ Compared
    /\ oldData = newData
    /\ OldTables # <<>>
    /\ OldNumbers # <<>>

\* The cells of tables, table by table and row by row.
CellsOf(tables) == Flatten(Flatten(tables))
CountOf(cells, c) == Cardinality({ i \in DOMAIN cells : cells[i] = c })
\* The same cells, as often, in another table, row or cell order.
Reordered(a, b) ==
    /\ a # b
    /\ Len(CellsOf(a)) = Len(CellsOf(b))
    /\ \A c \in CellTexts : CountOf(CellsOf(a), c) = CountOf(CellsOf(b), c)

\* C8: when the tables of the two snapshots hold the same cells in another
\* table, row or cell order, compareData reports 'Table data has changed'.
OrderSensitivity ==
    (Compared /\ Reordered(OldTables, NewTables)) => TableDataChanged \in Categories

\* The cells of one row swapped.
OrderSensitivityWitness ==
    /\ Compared
    /\ Len(OldTables) = 1 /\ Len(NewTables) = 1
    /\ Len(OldTables[1]) = 1 /\ Len(NewTables[1]) = 1
    /\ Len(OldTables[1][1]) = 2 /\ Len(NewTables[1][1]) = 2
    /\ OldTables[1][1][1] # OldTables[1][1][2]
    /\ NewTables[1][1] = <<OldTables[1][1][2], OldTables[1][1][1]>>
    /\ TableDataChanged \in Categories

\* C9: each category is reported iff its own field group differs (an absent
\* array counting as the empty one), whatever the other two do; a difference
\* in the numbers alone yields exactly <<'Numbers/dates have changed'>>.
CategoryIndependence ==
    Compared =>
        /\ ~diffOut[1].threw
        /\ MainContentChanged \in Categories <=> oldData.mainText # newData.mainText
        /\ TableDataChanged \in Categories <=> OldTables # NewTables
        /\ NumbersChanged \in Categories <=> OldNumbers # NewNumbers
        /\ (/\ oldData.mainText = newData.mainText
            /\ OldTables = NewTables
            /\ OldNumbers # NewNumbers) => diffOut[1].value = <<NumbersChanged>>

\* [10] against [11], the main text and the tables being the same.
CategoryIndependenceWitness ==
    /\ Compared
    /\ oldData.mainText = newData.mainText
    /\ OldTables = NewTables
    /\ OldNumbers = <<N10>> /\ NewNumbers = <<N11>>
    /\ diffOut[1].value = <<NumbersChanged>>

IsCategory(c) == c \in Categories

\* C18: the list compareData returns is CategoryList restricted to the
\* categories it holds: no duplicate, no other entry, the fixed order; and
\* when the main content changed, the tables and the numbers are still
\* tested.
CategoryOrder ==
    Compared =>
        /\ ~diffOut[1].threw
        /\ diffOut[1].value = SelectSeq(CategoryList, IsCategory)
        /\ oldData.mainText # newData.mainText =>
              /\ MainContentChanged \in Categories
              /\ OldTables # NewTables => TableDataChanged \in Categories
              /\ OldNumbers # NewNumbers => NumbersChanged \in Categories

\* The main content, the tables and the numbers all changed.
CategoryOrderWitness ==
    /\ Compared
    /\ oldData.mainText # newData.mainText
    /\ OldTables # NewTables
    /\ OldNumbers # NewNumbers
    /\ diffOut[1].value = CategoryList

(***************************************************************************)
(* Properties of the detailed report (specification SpecReport)            *)
(***************************************************************************)
ReportBuilt == IsSome(emailContent) /\ ~emailContent[1].threw
ReportElements == emailContent[1].value
ElementsAt(tag, text) ==
    { i \in DOMAIN ReportElements :
        ReportElements[i].tag = tag /\ ReportElements[i].text = text }

\* The tables a stretch of the report shows, read back from its <table>s.
TablesShown(elements) ==
    LET shown == SelectSeq(elements, LAMBDA e : e.tag = "table")
    IN [i \in DOMAIN shown |->
          [k \in DOMAIN shown[i].rows |-> shown[i].rows[k].cells]]

ReportOldTables == OrEmpty(oldData.fields[1].tables)
ReportNewTables == OrEmpty(newData.fields[1].tables)
ReportOldNumbers == OrEmpty(oldData.fields[1].numbers)
ReportNewNumbers == OrEmpty(newData.fields[1].numbers)

\* C23: a report that was built has one list item per entry of the change
\* list, in its order; it has the table section, whose 'Previous Data' view
\* shows the previous snapshot's tables and whose 'Current Data' view shows
\* the current one's, iff 'Table data has changed' is in the list; it has the
\* number section, with the previous numbers joined by ', ' and then the
\* current ones, iff 'Numbers/dates have changed' is in the list; and it links
\* to the current snapshot's url.
ReportSections ==
    ReportBuilt =>
      LET items == SelectSeq(ReportElements, LAMBDA e : e.tag = "li")
          tablesChanged == Includes(reportChanges, TableDataChanged)
          numbersChanged == Includes(reportChanges, NumbersChanged)
      IN /\ [i \in DOMAIN items |-> items[i].text] = reportChanges
         /\ (ElementsAt("h3", "Table Changes:") # {}) <=> tablesChanged
         /\ (ElementsAt("h4", "Previous Data:") # {}) <=> tablesChanged
         /\ (ElementsAt("h4", "Current Data:") # {}) <=> tablesChanged
         /\ ~tablesChanged => TablesShown(ReportElements) = <<>>
         /\ tablesChanged =>
              \E h \in ElementsAt("h3", "Table Changes:") :
              \E i \in ElementsAt("h4", "Previous Data:") :
              \E j \in ElementsAt("h4", "Current Data:") :
                 /\ h < i /\ i < j
                 /\ TablesShown(SubSeq(ReportElements, i + 1, j - 1)) = ReportOldTables
                 /\ TablesShown(SubSeq(ReportElements, j + 1, Len(ReportElements)))
                      = ReportNewTables
         /\ (ElementsAt("h3", "Number/Date Changes:") # {}) <=> numbersChanged
         /\ (ElementsAt("p", "Previous:") # {}) <=> numbersChanged
         /\ (ElementsAt("p", "Current:") # {}) <=> numbersChanged
         /\ numbersChanged =>
              \E h \in ElementsAt("h3", "Number/Date Changes:") :
                 /\ h + 2 \in DOMAIN ReportElements
                 /\ ReportElements[h + 1]
                      = Element("p", "Previous:", JoinWith(ReportOldNumbers, <<",", " ">>))
                 /\ ReportElements[h + 2]
                      = Element("p", "Current:", JoinWith(ReportNewNumbers, <<",", " ">>))
         /\ \E a \in DOMAIN ReportElements :
               ReportElements[a].tag = "a" /\ ReportElements[a].text = newData.url

ReportSectionsWitness ==
    /\ ReportBuilt
    /\ reportChanges = CategoryList
    /\ ReportOldTables # <<>>
    /\ ReportNewTables # <<>>
    /\ ReportOldTables # ReportNewTables
    /\ ReportOldNumbers = <<N10>>
    /\ ReportNewNumbers = <<N10, N11>>

\* C24: a report that was built shows, in the table section, the 'no data'
\* paragraph for each side that has no table and, in the number section, a
\* paragraph that is not left empty for each side that has no number.
EmptyDataPlaceholder ==
    ReportBuilt =>
      /\ Includes(reportChanges, TableDataChanged) =>
           \E i \in ElementsAt("h4", "Previous Data:") :
           \E j \in ElementsAt("h4", "Current Data:") :
              /\ i < j
              /\ ReportOldTables = <<>> =>
                   ReportElements[i + 1] = Element("p", NoTableData, <<>>)
              /\ ReportNewTables = <<>> =>
                   /\ j + 1 \in DOMAIN ReportElements
                   /\ ReportElements[j + 1] = Element("p", NoTableData, <<>>)
      /\ Includes(reportChanges, NumbersChanged) =>
           /\ ReportOldNumbers = <<>> =>
                \A i \in ElementsAt("p", "Previous:") : ReportElements[i].chars # <<>>
           /\ ReportNewNumbers = <<>> =>
                \A i \in ElementsAt("p", "Current:") : ReportElements[i].chars # <<>>

\* The table half of EmptyDataPlaceholder alone.
EmptyTablesPlaceholder ==
    ReportBuilt /\ Includes(reportChanges, TableDataChanged) =>
       \E i \in ElementsAt("h4", "Previous Data:") :
       \E j \in ElementsAt("h4", "Current Data:") :
          /\ i < j
          /\ ReportOldTables = <<>> =>
               ReportElements[i + 1] = Element("p", NoTableData, <<>>)
          /\ ReportNewTables = <<>> =>
               /\ j + 1 \in DOMAIN ReportElements
               /\ ReportElements[j + 1] = Element("p", NoTableData, <<>>)

(***************************************************************************)
(* Properties of one run (specifications SpecRun and SpecRunFair)          *)
(***************************************************************************)
ScrapeCalls == { i \in DOMAIN log : log[i] = Ev("scrapeData", "called", "") }

FirstSuccessReturned ==
    /\ pc = "scraped"
    /\ attempt = 2
    /\ FetchSucceeded

(***************************************************************************)
(* Properties of runAll (specification Spec), continued                    *)
(***************************************************************************)
\* The loop of runAll goes on to the next record.
NextRecord == allPc \in {"loop", "delay"} /\ idx' = idx + 1
\* The inter-record delay elapses in this step.
DelayElapses == allPc = "delay" /\ now' = now + 1 /\ allPc' = "loop"
\* The records are taken one after the other: a run is in flight only for
\* record idx, with one result for each record before it and none for it.
OneRunAtATime ==
    /\ pc # "idle" /\ allPc \in {"loop", "delay"} =>
          /\ allPc = "loop"
          /\ idx \in DOMAIN accounts
          /\ Len(results) = idx - 1
          /\ checker = Some(accounts[idx])
    /\ allPc = "delay" => pc = "idle" /\ Len(results) = idx /\ idx \in DOMAIN accounts

\* C22, as claimed: with more than one record, the loop goes on to the next
\* record only by the delay elapsing.
SequentialWithDelayAsClaimed ==
    [][(NextRecord /\ Len(accounts) > 1) => DelayElapses]_vars

\* C22, amended: the records are taken one after the other; with more than
\* one record, the loop goes on to the next record by the delay elapsing when
\* run() was called for the record, whatever run() did, and at once only
\* when the record's checker could not be built; the delay starts when run()
\* returns and nothing else happens until it is over.
SequentialWithDelay ==
    /\ []OneRunAtATime
    /\ [][/\ (NextRecord /\ Len(accounts) > 1) =>
                \/ DelayElapses
                \/ allPc = "loop" /\ pc = "idle" /\ ConstructorThrows(accounts[idx])
                   /\ fetched' = Append(fetched, "none")
          /\ (allPc = "loop" /\ pc = "returned" /\ pc' = "idle" /\ Len(accounts) > 1) =>
                allPc' = "delay" /\ idx' = idx
          /\ allPc = "delay" => DelayElapses /\ pc' = "idle" /\ results' = results
          /\ (allPc = "loop" /\ pc = "idle" /\ pc' = "start") =>
                /\ idx' = idx
                /\ idx > 1 /\ fetched[idx - 1] # "none" => now > FirstSecond]_vars

\* The delay after the failed run of the second of three records is over and
\* the third record is next.
SequentialWithDelayWitness ==
    /\ allPc = "loop"
    /\ pc = "idle"
    /\ idx = 3
    /\ Len(accounts) = 3
    /\ fetched = <<"returned", "threw">>

(***************************************************************************)
(* Properties of one run, continued                                        *)
(***************************************************************************)
\* The run in flight is in its catch block or has left it (ERROR), or has
\* ended without entering it (DONE).
InError == Notified(ErrorTitle) # {}
Done == RunEnded /\ ~InError
OutcomeTitles == { FirstRunTitle, NoChangesTitle, ChangesTitle }

\* C25: a run that was called ends, with its attempts and waits settling; it
\* ends either without the error notification, its snapshot stored, or with
\* it; and once the error notification is out the run only calls sendEmail
\* and sendMail: it calls neither scrapeData, saveData nor compareData, emits
\* no further notification, and leaves the files as they are.
RunStateMachine ==
    /\ (pc = "start") ~> RunEnded
    /\ [](/\ Done => (SaveSucceeded /\ Stored
                      /\ \E t \in OutcomeTitles : Notified(t) # {})
          /\ InError => pc \in {"sendMail", "returned"}
          /\ \A i \in Notified(ErrorTitle) : \A j \in DOMAIN log :
                j > i => log[j].op \in {"sendEmail", "sendMail"})
    /\ [][InError =>
             /\ files' = files
             /\ written' = written
             /\ pc' \in {"returned", "idle"}
             /\ log' # <<>> => \A j \in DOMAIN log' :
                   j > Len(log) => log'[j].op \in {"sendEmail", "sendMail"}]_vars

\* A run whose fetch failed has ended after its error report was sent.
RunStateMachineWitness ==
    /\ RunEnded
    /\ InError
    /\ FetchFailed
    /\ LogHas(Ev("sendMail", "sent", ""))

ReportBuildFailed == RunEnded /\ BuildFailed

\* The positions of scrapeData at which an attempt has a session of its own.
InAttempt == pc \in {"page", "retryWait", "finally"}

LatestFiles == [d \in DirNames |-> getLatestDataFile(files[d])]

\* C29: a run in which reading the previous snapshot failed or scrapeData
\* threw has not called saveData, and no step of a run that has not called
\* saveData changes the files or what getLatestDataFile returns; a run in
\* which reading failed has not called scrapeData, made no attempt and
\* launched no browser, and is in its catch block or past it (a run that
\* called readFileSync and has no previous snapshot is such a run).
FailedFetchKeepsStore ==
    /\ []((ReadFailed \/ FetchFailed) =>
             /\ ~Called("saveData")
             /\ ~Called("compareData")
             /\ InError
             /\ pc \in {"sendMail", "returned"})
    /\ []((Called("readFileSync") /\ ~IsSome(previousData)) =>
             /\ ReadFailed
             /\ ~Called("scrapeData")
             /\ attempt = 0 /\ openSessions = 0 /\ browser = "null"
             /\ ~IsSome(currentData)
             /\ lastError = ReadErrorMessage)
    /\ [][(pc # "idle" /\ ~Called("saveData")') =>
             /\ files' = files
             /\ written' = written
             /\ LatestFiles' = LatestFiles]_vars

\* scrapeData has thrown in a run whose directory holds a file, and the run
\* has ended.
FailedFetchKeepsStoreWitness ==
    /\ RunEnded
    /\ FetchFailed
    /\ IsSome(previousData)
    /\ IsSome(LatestFiles[checker[1].login])

\* Reading the stored file failed and the run has ended.
ReadFailureEndsRun == RunEnded /\ ReadFailed /\ files["u1"] # {}

(***************************************************************************)
(* Properties of the scheduler (specification SpecSched)                   *)
(***************************************************************************)
\* The jobs an earlier call of setupScheduler started that still run.
StaleJobs == { j \in jobs : j.setup < setups }

\* C28: every job that runs, and so can call runCheck, was created by the
\* latest call of setupScheduler.
SchedulerReplacement == StaleJobs = {}

\* What the code keeps of it: the job cronJob refers to is of the latest
\* call and runs, and a stale job is never the first job of its call.
FirstJobReplaced ==
    /\ IsSome(cronJob) => (cronJob[1].setup = setups /\ cronJob[1] \in jobs)
    /\ \A j \in StaleJobs : j.day \notin { "every", WeekDays[1] }

\* A check started by a scheduled job while a stale job runs beside the
\* jobs of the latest call.
StaleJobRuns ==
    /\ StaleJobs # {}
    /\ \E call \in DOMAIN checkCalls : checkCalls[call].caller = "scheduler"

(***************************************************************************)
(* Properties of the main process (specifications SpecMain, SpecMainFair), *)
(* continued                                                               *)
(***************************************************************************)
EventsOf(call, statuses) ==
    { i \in DOMAIN statusEvents :
        statusEvents[i].call = call /\ statusEvents[i].status \in statuses }

====
